---- MODULE Spec2Model ----
(***************************************************************************)
(* Model of the nix manager's flake.lock extraction.                       *)
(*                                                                         *)
(* Two variants of extractPackageFile are modelled:                        *)
(*   "sibling": reads flake.lock next to the package file (part_000:16)    *)
(*   "inline" : receives the lock graph as its content     (part_000:153)  *)
(* together with the zod schema both of them validate against.             *)
(*                                                                         *)
(* Strings whose characters matter (hosts, owners, urls, package names)    *)
(* are sequences of one-character strings; provider types, node keys and   *)
(* log messages are atoms.  A raw (deserialized, not yet validated) value  *)
(* is tagged by its JavaScript type: [str |-> s], [num |-> n],             *)
(* [obj |-> f] or [nul |-> TRUE].  A validated object is a function whose  *)
(* domain holds exactly the properties that are present.                   *)
(***************************************************************************)
EXTENDS Integers, Sequences, FiniteSets, TLC

VARIABLES mode, content, flakeLock, todo, visited, deps, logs, result, pc

vars == <<mode, content, flakeLock, todo, visited, deps, logs, result, pc>>

(***************************************************************************)
(* Bounds                                                                  *)
(***************************************************************************)
\* number of dependency nodes (besides the node keyed "root") a graph may hold
NumDeps == 2

(***************************************************************************)
(* String literals of the source                                           *)
(***************************************************************************)
S_https == <<"h","t","t","p","s",":","/","/">>

S_slash == <<"/">>

S_github_com == <<"g","i","t","h","u","b",".","c","o","m">>

S_gitlab_com == <<"g","i","t","l","a","b",".","c","o","m">>

S_git_sr_ht == <<"g","i","t",".","s","r",".","h","t">>

\* what a template literal renders for an absent (undefined) property
S_undefined == <<"u","n","d","e","f","i","n","e","d">>

S_archive == <<"a","r","c","h","i","v","e","/">>

\* GitRefsDatasource.id
GitRefsId == "git-refs"

SupportedVersion == 7

(***************************************************************************)
(* Raw values                                                              *)
(***************************************************************************)
RStr(s) == [str |-> s]

RNum(n) == [num |-> n]

RObj(f) == [obj |-> f]

RNull == [nul |-> TRUE]

NoProps == [k \in {} |-> k]

IsStr(x) == DOMAIN x = {"str"}

IsNum(x) == DOMAIN x = {"num"}

IsObj(x) == DOMAIN x = {"obj"}

(***************************************************************************)
(* schema.ts                                                               *)
(***************************************************************************)
InputType == {"git", "github", "gitlab", "indirect", "sourcehut"}

InputTypeOK(x) == IsStr(x) /\ x.str \in InputType

\* z.<type>().optional(): absent, or present and of the type
OptStr(o, k) == k \notin DOMAIN o \/ IsStr(o[k])

ReqStr(o, k) == k \in DOMAIN o /\ IsStr(o[k])

ReqNum(o, k) == k \in DOMAIN o /\ IsNum(o[k])

LockedKeys == {"host", "lastModified", "narHash", "owner", "repo", "ref",
               "rev", "revCount", "type", "url"}

LockedInputOK(x) ==
    /\ IsObj(x)
    /\ OptStr(x.obj, "host")
    /\ ReqNum(x.obj, "lastModified")
    /\ ReqStr(x.obj, "narHash")
    /\ OptStr(x.obj, "owner")
    /\ OptStr(x.obj, "repo")
    /\ OptStr(x.obj, "ref")
    /\ ReqStr(x.obj, "rev")
    /\ ReqNum(x.obj, "revCount")
    /\ "type" \in DOMAIN x.obj /\ InputTypeOK(x.obj.type)
    /\ OptStr(x.obj, "url")

\* z.object strips the properties the schema does not name
LockedInputData(x) ==
    [k \in DOMAIN x.obj \cap LockedKeys |->
        IF k \in {"lastModified", "revCount"} THEN x.obj[k].num ELSE x.obj[k].str]

OriginalKeys == {"owner", "repo", "ref", "type", "url"}

OriginalInputOK(x) ==
    /\ IsObj(x)
    /\ OptStr(x.obj, "owner")
    /\ OptStr(x.obj, "repo")
    /\ OptStr(x.obj, "ref")
    /\ "type" \in DOMAIN x.obj /\ InputTypeOK(x.obj.type)
    /\ OptStr(x.obj, "url")

OriginalInputData(x) ==
    [k \in DOMAIN x.obj \cap OriginalKeys |-> x.obj[k].str]

\* z.record(z.string(), z.string())
InputsOK(x) == IsObj(x) /\ \A a \in DOMAIN x.obj : IsStr(x.obj[a])

InputsData(x) == [a \in DOMAIN x.obj |-> x.obj[a].str]

NixInputKeys == {"inputs", "locked", "original"}

NixInputOK(x) ==
    /\ IsObj(x)
    /\ "inputs" \in DOMAIN x.obj => InputsOK(x.obj.inputs)
    /\ "locked" \in DOMAIN x.obj => LockedInputOK(x.obj.locked)
    /\ "original" \in DOMAIN x.obj => OriginalInputOK(x.obj.original)

NixInputData(x) ==
    [k \in DOMAIN x.obj \cap NixInputKeys |->
        CASE k = "inputs" -> InputsData(x.obj[k])
          [] k = "locked" -> LockedInputData(x.obj[k])
          [] OTHER -> OriginalInputData(x.obj[k])]

NixFlakeLockOK(x) ==
    /\ IsObj(x)
    /\ "nodes" \in DOMAIN x.obj
    /\ IsObj(x.obj.nodes)
    /\ \A n \in DOMAIN x.obj.nodes.obj : NixInputOK(x.obj.nodes.obj[n])
    /\ ReqStr(x.obj, "root")
    /\ ReqNum(x.obj, "version")

NixFlakeLockData(x) ==
    [nodes |-> [n \in DOMAIN x.obj.nodes.obj |-> NixInputData(x.obj.nodes.obj[n])],
     root |-> x.obj.root.str,
     version |-> x.obj.version.num]

NoData == [none |-> TRUE]

\* NixFlakeLock.safeParse
safeParse(x) ==
    IF NixFlakeLockOK(x)
    THEN [success |-> TRUE, data |-> NixFlakeLockData(x)]
    ELSE [success |-> FALSE, data |-> NoData]

(***************************************************************************)
(* lockableHTTPTarballProtocol (part_000:12-14)                            *)
(*   ^https://(?<domain>[^/]+)/(?<owner>[^/]+)/(?<repo>[^/]+)/archive/     *)
(*    (?<rev>.+).tar.gz$                                                   *)
(* The dots of ".tar.gz" are unescaped and match any character.            *)
(***************************************************************************)
IsPrefix(p, s) == Len(p) <= Len(s) /\ SubSeq(s, 1, Len(p)) = p

Drop(s, n) == SubSeq(s, n + 1, Len(s))

\* index of the first "/" of s, 0 when there is none
FirstSlash(s) ==
    IF \E i \in 1..Len(s) : s[i] = "/"
    THEN CHOOSE i \in 1..Len(s) : s[i] = "/" /\ \A j \in 1..(i - 1) : s[j] # "/"
    ELSE 0

lockableHTTPTarballProtocol(s) ==
    LET r0 == Drop(s, Len(S_https))
        i1 == FirstSlash(r0)
        r1 == Drop(r0, i1)
        i2 == FirstSlash(r1)
        r2 == Drop(r1, i2)
        i3 == FirstSlash(r2)
        r3 == Drop(r2, i3)
        r4 == Drop(r3, Len(S_archive))
        n == Len(r4)
    IN  [matched |-> /\ IsPrefix(S_https, s)
                     /\ i1 > 1 /\ i2 > 1 /\ i3 > 1
                     /\ IsPrefix(S_archive, r3)
                     /\ n >= 8
                     /\ r4[n - 5] = "t" /\ r4[n - 4] = "a" /\ r4[n - 3] = "r"
                     /\ r4[n - 1] = "g" /\ r4[n] = "z",
         domain |-> SubSeq(r0, 1, i1 - 1),
         owner |-> SubSeq(r1, 1, i2 - 1),
         repo |-> SubSeq(r2, 1, i3 - 1)]

\* url.replace(lockableHTTPTarballProtocol, 'https://$<domain>/$<owner>/$<repo>')
ReplaceTarball(s) ==
    LET m == lockableHTTPTarballProtocol(s)
    IN  IF m.matched
        THEN S_https \o m.domain \o S_slash \o m.owner \o S_slash \o m.repo
        ELSE s

(***************************************************************************)
(* Dependency records                                                      *)
(***************************************************************************)
\* a property that is set from o[f]; left out when o[f] is undefined
Prop(k, o, f) == IF f \in DOMAIN o THEN (k :> o[f]) ELSE NoProps

\* ${o.f} inside a template literal
Render(o, f) == IF f \in DOMAIN o THEN o[f] ELSE S_undefined

\* `https://${original.host ?? dflt}/${original.owner}/${original.repo}`
HostedName(original, dflt) ==
    S_https \o (IF "host" \in DOMAIN original THEN original.host ELSE dflt)
            \o S_slash \o Render(original, "owner")
            \o S_slash \o Render(original, "repo")

\* `https://<fixed host>/${original.owner}/${original.repo}`
FixedHostName(original, host) ==
    S_https \o host \o S_slash \o Render(original, "owner")
            \o S_slash \o Render(original, "repo")

DepBase(depName, locked) ==
    [depName |-> depName,
     currentDigest |-> locked.rev,
     replaceString |-> locked.rev,
     datasource |-> GitRefsId]

\* the switch of the sibling-file variant: the records pushed for one node
PushedA(depName, locked, original) ==
    CASE locked.type = "github" ->
           << DepBase(depName, locked) @@ Prop("currentValue", original, "ref")
              @@ [packageName |-> HostedName(original, S_github_com)] >>
      [] locked.type = "gitlab" ->
           << DepBase(depName, locked) @@ Prop("currentValue", original, "ref")
              @@ [packageName |-> HostedName(original, S_gitlab_com)] >>
      [] locked.type = "git" ->
           << DepBase(depName, locked) @@ Prop("currentValue", original, "ref")
              @@ Prop("packageName", original, "url") >>
      [] locked.type = "sourcehut" ->
           << DepBase(depName, locked) @@ Prop("currentValue", original, "ref")
              @@ [packageName |-> HostedName(original, S_git_sr_ht)] >>
      [] locked.type = "tarball" ->
           << DepBase(depName, locked) @@ Prop("currentValue", locked, "ref")
              @@ [packageName |->
                    ReplaceTarball(IF "url" \in DOMAIN original
                                   THEN original.url ELSE << >>)] >>
      [] OTHER -> << >>

\* the if/else chain of the inline variant
PushedB(depName, locked, original) ==
    IF locked.type = "github"
    THEN << DepBase(depName, locked) @@ Prop("currentValue", original, "ref")
            @@ [packageName |-> FixedHostName(original, S_github_com)] >>
    ELSE IF locked.type = "gitlab"
    THEN << DepBase(depName, locked) @@ Prop("currentValue", original, "ref")
            @@ [packageName |-> FixedHostName(original, S_gitlab_com)] >>
    ELSE IF original.type = "git"
    THEN << DepBase(depName, locked) @@ Prop("currentValue", original, "ref")
            @@ Prop("packageName", original, "url") >>
    ELSE IF locked.type = "sourcehut"
    THEN << DepBase(depName, locked) @@ Prop("currentValue", original, "ref")
            @@ [packageName |-> FixedHostName(original, S_git_sr_ht)] >>
    ELSE << >>

(***************************************************************************)
(* Diagnostics                                                             *)
(***************************************************************************)
TraceLog == [level |-> "trace", msg |-> "nix.extractPackageFile"]

InvalidLogA == [level |-> "error", msg |-> "invalid flake.lock file"]

InvalidLogB == [level |-> "debug", msg |-> "invalid flake.lock file"]

NoRootLogA ==
    [level |-> "error",
     msg |-> "invalid flake.lock file because cannot find root node"]

EmptyLog == [level |-> "debug", msg |-> "Found empty flake input, skipping"]

UnknownTypeLog == [level |-> "debug", msg |-> "Unknown flake.lock type, skipping"]

UnsupportedLogB == [level |-> "debug", msg |-> "Unsupported flake lock version"]

(***************************************************************************)
(* Inputs: the lock graphs the extraction is run on                        *)
(***************************************************************************)
O1 == <<"o">>

R1 == <<"r">>

H1 == <<"h",".","x">>

REF1 == <<"m">>

REV1 == <<"d","1">>

NAR1 == <<"n">>

GitUrl == S_https \o H1 \o <<"/","g">>

TarUrlOK ==
    S_https \o <<"e",".","o","/","o","/","r","/">> \o S_archive
            \o <<"d","1",".","t","a","r",".","g","z">>

TarUrlBad ==
    S_https \o <<"e",".","o","/","o","/","r","/","d","1",".","t","a","r",".","g","z">>

RawLocked(t) ==
    RObj([lastModified |-> RNum(1), narHash |-> RStr(NAR1), rev |-> RStr(REV1),
          revCount |-> RNum(1), type |-> RStr(t)])

RawLockedRef(t) ==
    RObj([lastModified |-> RNum(1), narHash |-> RStr(NAR1), rev |-> RStr(REV1),
          revCount |-> RNum(1), type |-> RStr(t), ref |-> RStr(REF1)])

RawLockedNoRev(t) ==
    RObj([lastModified |-> RNum(1), narHash |-> RStr(NAR1),
          revCount |-> RNum(1), type |-> RStr(t)])

RawLockedNumType ==
    RObj([lastModified |-> RNum(1), narHash |-> RStr(NAR1), rev |-> RStr(REV1),
          revCount |-> RNum(1), type |-> RNum(1)])

RawOriginal(t) ==
    RObj([type |-> RStr(t), owner |-> RStr(O1), repo |-> RStr(R1), ref |-> RStr(REF1)])

RawOriginalHost(t) ==
    RObj([type |-> RStr(t), owner |-> RStr(O1), repo |-> RStr(R1), ref |-> RStr(REF1),
          host |-> RStr(H1)])

RawOriginalNoOwner(t) == RObj([type |-> RStr(t), repo |-> RStr(R1)])

RawOriginalUrl(t, u) == RObj([type |-> RStr(t), url |-> RStr(u), ref |-> RStr(REF1)])

RawNode(l, o) == RObj([locked |-> l, original |-> o])

\* the shapes a dependency node is drawn from
DepShape(i) ==
    CASE i = 1 -> RawNode(RawLocked("github"), RawOriginal("github"))
      [] i = 2 -> RawNode(RawLocked("github"), RawOriginalHost("github"))
      [] i = 3 -> RawNode(RawLocked("gitlab"), RawOriginalHost("gitlab"))
      [] i = 4 -> RawNode(RawLocked("sourcehut"), RawOriginalHost("sourcehut"))
      [] i = 5 -> RawNode(RawLocked("git"), RawOriginalUrl("git", GitUrl))
      [] i = 6 -> RawNode(RawLocked("git"), RawOriginal("github"))
      [] i = 7 -> RawNode(RawLocked("github"), RawOriginalUrl("git", GitUrl))
      [] i = 8 -> RawNode(RawLocked("indirect"), RawOriginalUrl("git", GitUrl))
      [] i = 9 -> RawNode(RawLocked("github"), RawOriginal("indirect"))
      [] i = 10 -> RawNode(RawLocked("indirect"), RawOriginal("github"))
      [] i = 11 -> RObj([locked |-> RawLocked("github")])
      [] i = 12 -> RObj([original |-> RawOriginal("github")])
      [] i = 13 -> RObj(NoProps)
      [] i = 14 -> RawNode(RawLockedRef("tarball"), RawOriginalUrl("tarball", TarUrlOK))
      [] i = 15 -> RawNode(RawLockedRef("tarball"), RawOriginalUrl("tarball", TarUrlBad))
      [] i = 16 -> RawNode(RawLockedNoRev("github"), RawOriginal("github"))
      [] i = 17 -> RawNode(RawLocked("path"), RawOriginal("path"))
      [] i = 18 -> RawNode(RawLocked("gitlab"), RawOriginal("gitlab"))
      [] i = 19 -> RawNode(RawLocked("sourcehut"), RawOriginal("sourcehut"))
      [] i = 20 -> RawNode(RawLocked("github"), RawOriginalNoOwner("github"))
      [] OTHER -> RawNode(RawLockedNumType, RawOriginal("github"))

DepName(i) == CASE i = 1 -> "a" [] i = 2 -> "b" [] i = 3 -> "c" [] OTHER -> "d"

\* shapes tried for the i-th dependency node; 0 leaves the node out
Palette(i) ==
    CASE i = 1 -> 0..17
      [] i = 2 -> {0, 1, 5, 6, 8, 13, 18, 19, 20, 21}
      [] OTHER -> {0, 1, 13}

DepIdx == 1..NumDeps

DepNames == {DepName(i) : i \in DepIdx}

\* the node keyed "root": left out, without inputs, with inputs naming a set
\* of nodes, with an alias that differs from the node it refers to, or
\* carrying provider data of its own
RootKinds == {"absent", "bare", "alias", "full"}

RootVariants ==
    [kind : RootKinds, set : {{}}] \cup [kind : {"inputs"}, set : SUBSET DepNames]

SelfInputs(S) == [n \in S |-> RStr(n)]

RootNode(rv) ==
    CASE rv.kind = "bare" -> RObj(NoProps)
      [] rv.kind = "alias" -> RObj([inputs |-> RObj([x |-> RStr("a")])])
      [] rv.kind = "full" ->
            RObj([inputs |-> RObj(SelfInputs(DepNames \cup {"root"})),
                  locked |-> RawLocked("github"),
                  original |-> RawOriginal("github")])
      [] OTHER -> RObj([inputs |-> RObj(SelfInputs(rv.set))])

RawNodes(rv, sh) ==
    [n \in {DepName(i) : i \in {j \in DepIdx : sh[j] # 0}}
            \cup (IF rv.kind = "absent" THEN {} ELSE {"root"}) |->
        IF n = "root" THEN RootNode(rv)
        ELSE DepShape(sh[CHOOSE i \in DepIdx : DepName(i) = n])]

Graph(rootField, version, rv, sh) ==
    RObj([nodes |-> RObj(RawNodes(rv, sh)),
          root |-> RStr(rootField),
          version |-> RNum(version)])

RootFields == {"root", "a"}

Versions == {6, 7, 8}

\* inputs that are no lock graph at all
MalformedKinds == {"null", "text", "noNodes", "nodesText", "noRoot", "versionText"}

Malformed(k) ==
    CASE k = "null" -> RNull
      [] k = "text" -> RStr(<<"{","}">>)
      [] k = "noNodes" -> RObj([root |-> RStr("root"), version |-> RNum(7)])
      [] k = "nodesText" ->
            RObj([nodes |-> RStr(<<"x">>), root |-> RStr("root"), version |-> RNum(7)])
      [] k = "noRoot" -> RObj([nodes |-> RObj(NoProps), version |-> RNum(7)])
      [] OTHER ->
            RObj([nodes |-> RObj(NoProps), root |-> RStr("root"),
                  version |-> RStr(<<"7">>)])

Modes == {"sibling", "inline"}

(***************************************************************************)
(* State after the collaborator has delivered the lock contents            *)
(***************************************************************************)
Pending == [kind |-> "pending"]

Init ==
    /\ mode \in Modes
    /\ \/ \E k \in MalformedKinds :
            \* only readLocalFile can deliver null
            /\ k = "null" => mode = "sibling"
            /\ content = Malformed(k)
       \/ \E rf \in RootFields, v \in Versions, rv \in RootVariants,
             sh \in [DepIdx -> UNION {Palette(i) : i \in DepIdx}] :
               /\ \A i \in DepIdx : sh[i] \in Palette(i)
               /\ content = Graph(rf, v, rv, sh)
    /\ flakeLock = NoData
    /\ todo = {}
    /\ visited = << >>
    /\ deps = << >>
    /\ logs = << >>
    /\ result = Pending
    /\ pc = "start"

(***************************************************************************)
(* Helpers of the loop bodies                                              *)
(***************************************************************************)
Null == [kind |-> "null"]

Threw == [kind |-> "throw"]

\* return { deps } when deps.length, else null
Returned(d) == IF Len(d) > 0 THEN [kind |-> "deps", deps |-> d] ELSE Null

\* depName === 'root', sibling-file variant
IsRootA(depName) == depName = "root"

\* depName === 'root', inline variant
IsRootB(depName) == depName = "root"

\* flakeLocked === undefined || flakeOriginal === undefined
IsEmptyInput(flakeInput) ==
    "locked" \notin DOMAIN flakeInput \/ "original" \notin DOMAIN flakeInput

\* !rootInputs || !(depName in rootInputs)
NotInRootInputs(rootNode, depName) ==
    IF "inputs" \notin DOMAIN rootNode
    THEN TRUE
    ELSE depName \notin DOMAIN rootNode.inputs

\* a version test that only turns down older formats
VersionUnsupported_Below(v) == v < SupportedVersion

\* flakeLock.version !== 7
VersionUnsupported(v) == v # SupportedVersion

\* the loop moves on to the next key of Object.keys(flakeLock.nodes); the
\* order of the keys is the order of the lock file, which is arbitrary
NextKey(depName) ==
    /\ todo' = todo \ {depName}
    /\ visited' = Append(visited, depName)

(***************************************************************************)
(* Sibling-file variant (part_000:16-144)                                  *)
(***************************************************************************)
ValidateA ==
    /\ pc = "start" /\ mode = "sibling"
    /\ LET flakeLockParsed == safeParse(content)
       IN  IF ~flakeLockParsed.success
           THEN /\ logs' = logs \o <<TraceLog, InvalidLogA>>
                /\ result' = Null
                /\ pc' = "done"
                /\ UNCHANGED <<flakeLock, todo>>
           ELSE /\ logs' = Append(logs, TraceLog)
                /\ flakeLock' = flakeLockParsed.data
                /\ todo' = DOMAIN flakeLockParsed.data.nodes
                /\ pc' = "loop"
                /\ UNCHANGED result
    /\ UNCHANGED <<mode, content, visited, deps>>

SkipRootA ==
    /\ pc = "loop" /\ mode = "sibling"
    /\ \E depName \in todo :
         /\ IsRootA(depName)
         /\ NextKey(depName)
    /\ UNCHANGED <<mode, content, flakeLock, deps, logs, result, pc>>

\* flakeLock.nodes['root'] is undefined: reading .inputs throws a TypeError
ThrowNoRootA ==
    /\ pc = "loop" /\ mode = "sibling"
    /\ \E depName \in todo :
         /\ ~IsRootA(depName)
         /\ "root" \notin DOMAIN flakeLock.nodes
         /\ NextKey(depName)
    /\ result' = Threw
    /\ pc' = "done"
    /\ UNCHANGED <<mode, content, flakeLock, deps, logs>>

SkipUndeclaredA ==
    /\ pc = "loop" /\ mode = "sibling"
    /\ \E depName \in todo :
         /\ ~IsRootA(depName)
         /\ "root" \in DOMAIN flakeLock.nodes
         /\ NotInRootInputs(flakeLock.nodes["root"], depName)
         /\ NextKey(depName)
    /\ logs' = Append(logs, NoRootLogA)
    /\ UNCHANGED <<mode, content, flakeLock, deps, result, pc>>

SkipEmptyA ==
    /\ pc = "loop" /\ mode = "sibling"
    /\ \E depName \in todo :
         /\ ~IsRootA(depName)
         /\ "root" \in DOMAIN flakeLock.nodes
         /\ ~NotInRootInputs(flakeLock.nodes["root"], depName)
         /\ IsEmptyInput(flakeLock.nodes[depName])
         /\ NextKey(depName)
    /\ logs' = Append(logs, EmptyLog)
    /\ UNCHANGED <<mode, content, flakeLock, deps, result, pc>>

SkipIndirectA ==
    /\ pc = "loop" /\ mode = "sibling"
    /\ \E depName \in todo :
         /\ ~IsRootA(depName)
         /\ "root" \in DOMAIN flakeLock.nodes
         /\ ~NotInRootInputs(flakeLock.nodes["root"], depName)
         /\ ~IsEmptyInput(flakeLock.nodes[depName])
         /\ flakeLock.nodes[depName].original.type = "indirect"
         /\ NextKey(depName)
    /\ UNCHANGED <<mode, content, flakeLock, deps, logs, result, pc>>

ClassifyA ==
    /\ pc = "loop" /\ mode = "sibling"
    /\ \E depName \in todo :
         /\ ~IsRootA(depName)
         /\ "root" \in DOMAIN flakeLock.nodes
         /\ ~NotInRootInputs(flakeLock.nodes["root"], depName)
         /\ ~IsEmptyInput(flakeLock.nodes[depName])
         /\ flakeLock.nodes[depName].original.type # "indirect"
         /\ LET pushed == PushedA(depName, flakeLock.nodes[depName].locked,
                                  flakeLock.nodes[depName].original)
            IN  /\ deps' = deps \o pushed
                /\ logs' = IF pushed = << >> THEN Append(logs, UnknownTypeLog) ELSE logs
         /\ NextKey(depName)
    /\ UNCHANGED <<mode, content, flakeLock, result, pc>>

ReturnA ==
    /\ pc = "loop" /\ mode = "sibling"
    /\ todo = {}
    /\ result' = Returned(deps)
    /\ pc' = "done"
    /\ UNCHANGED <<mode, content, flakeLock, todo, visited, deps, logs>>

(***************************************************************************)
(* Inline variant (part_000:153-247)                                       *)
(***************************************************************************)
ValidateB ==
    /\ pc = "start" /\ mode = "inline"
    /\ LET flakeLockFile == safeParse(content)
       IN  IF ~flakeLockFile.success
           THEN /\ logs' = logs \o <<TraceLog, InvalidLogB>>
                /\ result' = Null
                /\ pc' = "done"
                /\ UNCHANGED flakeLock
           ELSE /\ logs' = Append(logs, TraceLog)
                /\ flakeLock' = flakeLockFile.data
                /\ pc' = "version"
                /\ UNCHANGED result
    /\ UNCHANGED <<mode, content, todo, visited, deps>>

CheckVersionB ==
    /\ pc = "version" /\ mode = "inline"
    /\ IF VersionUnsupported(flakeLock.version)
       THEN /\ logs' = Append(logs, UnsupportedLogB)
            /\ result' = Null
            /\ pc' = "done"
            /\ UNCHANGED todo
       ELSE /\ todo' = DOMAIN flakeLock.nodes
            /\ pc' = "loop"
            /\ UNCHANGED <<logs, result>>
    /\ UNCHANGED <<mode, content, flakeLock, visited, deps>>

SkipRootB ==
    /\ pc = "loop" /\ mode = "inline"
    /\ \E depName \in todo :
         /\ IsRootB(depName)
         /\ NextKey(depName)
    /\ UNCHANGED <<mode, content, flakeLock, deps, logs, result, pc>>

\* an empty node ending the extraction instead of being skipped
SkipEmptyB_Return ==
    /\ pc = "loop" /\ mode = "inline"
    /\ \E depName \in todo :
         /\ ~IsRootB(depName)
         /\ IsEmptyInput(flakeLock.nodes[depName])
         /\ NextKey(depName)
    /\ logs' = Append(logs, EmptyLog)
    /\ result' = Returned(deps)
    /\ pc' = "done"
    /\ UNCHANGED <<mode, content, flakeLock, deps>>

SkipEmptyB ==
    /\ pc = "loop" /\ mode = "inline"
    /\ \E depName \in todo :
         /\ ~IsRootB(depName)
         /\ IsEmptyInput(flakeLock.nodes[depName])
         /\ NextKey(depName)
    /\ logs' = Append(logs, EmptyLog)
    /\ UNCHANGED <<mode, content, flakeLock, deps, result, pc>>

SkipIndirectB ==
    /\ pc = "loop" /\ mode = "inline"
    /\ \E depName \in todo :
         /\ ~IsRootB(depName)
         /\ ~IsEmptyInput(flakeLock.nodes[depName])
         /\ flakeLock.nodes[depName].original.type = "indirect"
         /\ NextKey(depName)
    /\ UNCHANGED <<mode, content, flakeLock, deps, logs, result, pc>>

ClassifyB ==
    /\ pc = "loop" /\ mode = "inline"
    /\ \E depName \in todo :
         /\ ~IsRootB(depName)
         /\ ~IsEmptyInput(flakeLock.nodes[depName])
         /\ flakeLock.nodes[depName].original.type # "indirect"
         /\ LET pushed == PushedB(depName, flakeLock.nodes[depName].locked,
                                  flakeLock.nodes[depName].original)
            IN  /\ deps' = deps \o pushed
                /\ logs' = IF pushed = << >> THEN Append(logs, UnknownTypeLog) ELSE logs
         /\ NextKey(depName)
    /\ UNCHANGED <<mode, content, flakeLock, result, pc>>

ReturnB ==
    /\ pc = "loop" /\ mode = "inline"
    /\ todo = {}
    /\ result' = Returned(deps)
    /\ pc' = "done"
    /\ UNCHANGED <<mode, content, flakeLock, todo, visited, deps, logs>>

Next ==
    \/ ValidateA
    \/ SkipRootA
    \/ ThrowNoRootA
    \/ SkipUndeclaredA
    \/ SkipEmptyA
    \/ SkipIndirectA
    \/ ClassifyA
    \/ ReturnA
    \/ ValidateB
    \/ CheckVersionB
    \/ SkipRootB
    \/ SkipEmptyB
    \/ SkipIndirectB
    \/ ClassifyB
    \/ ReturnB

Spec == Init /\ [][Next]_vars

(***************************************************************************)
(* Vocabulary of the properties                                            *)
(***************************************************************************)
Done == pc = "done"

\* the lock graph passed the schema validator
Parsed == "nodes" \in DOMAIN flakeLock

\* the lock graph passed validation and, in the inline variant, the version check
LoopEntered == Parsed /\ (mode = "inline" => flakeLock.version = SupportedVersion)

OutNames == {deps[i].depName : i \in 1..Len(deps)}

CountLevel(l) == Cardinality({i \in 1..Len(logs) : logs[i].level = l})

CountLog(e) == Cardinality({i \in 1..Len(logs) : logs[i] = e})

VisitedNames == {visited[i] : i \in 1..Len(visited)}

NodeNames == DOMAIN flakeLock.nodes

HasBoth(n) ==
    "locked" \in DOMAIN flakeLock.nodes[n] /\ "original" \in DOMAIN flakeLock.nodes[n]

\* n is a key of the inputs of the node keyed "root"
Declared(n) ==
    IF "root" \notin NodeNames THEN FALSE
    ELSE IF "inputs" \notin DOMAIN flakeLock.nodes["root"] THEN FALSE
    ELSE n \in DOMAIN flakeLock.nodes["root"].inputs

\* the nodes for which the variant that runs pushes a record
Emits(n) ==
    IF n = "root" THEN FALSE
    ELSE IF mode = "sibling" /\ ~Declared(n) THEN FALSE
    ELSE IF ~HasBoth(n) THEN FALSE
    ELSE IF flakeLock.nodes[n].original.type = "indirect" THEN FALSE
    ELSE IF mode = "sibling"
         THEN flakeLock.nodes[n].locked.type
                 \in {"git", "github", "gitlab", "sourcehut", "tarball"}
         ELSE \/ flakeLock.nodes[n].locked.type \in {"github", "gitlab", "sourcehut"}
              \/ flakeLock.nodes[n].original.type = "git"

\* position of n in the order the loop visited the nodes, 0 if not visited
VisitIndex(n) ==
    IF n \in VisitedNames THEN CHOOSE i \in 1..Len(visited) : visited[i] = n ELSE 0

(***************************************************************************)
(* C1                                                                      *)
(***************************************************************************)
\* C1: in both variants the node whose key equals the graph's `root` field
\* never produces an output record, whatever its contents are, also when
\* `root` names a key other than the literal "root".
C1_RootFieldNeverEmitted == Parsed => flakeLock.root \notin OutNames

(***************************************************************************)
(* C2                                                                      *)
(***************************************************************************)
\* C2: extractPackageFile never throws: every call completes with null or
\* with an object holding deps, also when nodes has no entry for the root
\* node or the root node has no inputs.
C2_NeverThrows == Done => result.kind \in {"null", "deps"}

(***************************************************************************)
(* C3                                                                      *)
(***************************************************************************)
\* C3: in either variant an input that fails structural validation yields
\* null, processes no node and emits exactly one diagnostic at error severity.
C3_InvalidOneError ==
    (Done /\ ~NixFlakeLockOK(content)) =>
        /\ result.kind = "null"
        /\ visited = << >>
        /\ deps = << >>
        /\ CountLevel("error") = 1

(***************************************************************************)
(* Reading the raw lock contents                                           *)
(***************************************************************************)
RawHas(x, k) == IsObj(x) /\ k \in DOMAIN x.obj

RawStrAt(x, k) == RawHas(x, k) /\ IsStr(x.obj[k])

RawGraphNodes ==
    IF RawHas(content, "nodes") /\ IsObj(content.obj.nodes)
    THEN content.obj.nodes.obj
    ELSE NoProps

\* n is a key of the inputs of the raw node keyed "root"
RawDeclared(n) ==
    /\ "root" \in DOMAIN RawGraphNodes
    /\ RawHas(RawGraphNodes["root"], "inputs")
    /\ RawHas(RawGraphNodes["root"].obj.inputs, n)

\* a raw node whose locked.type is tarball and whose original.url has the
\* form https://<domain>/<owner>/<repo>/archive/<rev>.tar.gz
RawTarballNode(x) ==
    /\ RawHas(x, "locked") /\ RawHas(x, "original")
    /\ RawStrAt(x.obj.locked, "type")
    /\ x.obj.locked.obj.type.str = "tarball"
    /\ ReqStr(x.obj.locked.obj, "rev")
    /\ ReqStr(x.obj.locked.obj, "narHash")
    /\ ReqNum(x.obj.locked.obj, "lastModified")
    /\ ReqNum(x.obj.locked.obj, "revCount")
    /\ OptStr(x.obj.locked.obj, "ref")
    /\ RawStrAt(x.obj.original, "type")
    /\ x.obj.original.obj.type.str = "tarball"
    /\ RawStrAt(x.obj.original, "url")
    /\ lockableHTTPTarballProtocol(x.obj.original.obj.url.str).matched

\* everything of the lock contents but node n passes the schema
ValidBut(n) ==
    /\ IsObj(content)
    /\ ReqStr(content.obj, "root")
    /\ ReqNum(content.obj, "version")
    /\ \A k \in DOMAIN RawGraphNodes \ {n} : NixInputOK(RawGraphNodes[k])

(***************************************************************************)
(* C4                                                                      *)
(***************************************************************************)
\* C4: in sibling-file mode a root-declared node with locked.type = tarball
\* and original.url = https://<domain>/<owner>/<repo>/archive/<rev>.tar.gz
\* yields a record with packageName https://<domain>/<owner>/<repo> and
\* currentValue locked.ref.
C4_TarballClassified ==
    (Done /\ mode = "sibling") =>
        \A n \in DOMAIN RawGraphNodes \ {"root"} :
            (RawTarballNode(RawGraphNodes[n]) /\ RawDeclared(n) /\ ValidBut(n)) =>
                \E i \in 1..Len(deps) :
                    /\ deps[i].depName = n
                    /\ "packageName" \in DOMAIN deps[i]
                    /\ LET m == lockableHTTPTarballProtocol(
                                    RawGraphNodes[n].obj.original.obj.url.str)
                       IN  deps[i].packageName =
                             S_https \o m.domain \o S_slash \o m.owner
                                     \o S_slash \o m.repo
                    /\ RawHas(RawGraphNodes[n].obj.locked, "ref") =>
                          /\ "currentValue" \in DOMAIN deps[i]
                          /\ deps[i].currentValue =
                                RawGraphNodes[n].obj.locked.obj.ref.str

(***************************************************************************)
(* C5                                                                      *)
(***************************************************************************)
DefaultHost(t) ==
    CASE t = "github" -> S_github_com
      [] t = "gitlab" -> S_gitlab_com
      [] OTHER -> S_git_sr_ht

\* C5: in sibling-file mode every record of a node with locked.type in
\* {github, gitlab, sourcehut} has packageName https://H/{owner}/{repo} with
\* H the host the lock input gives in the node's original record, and the
\* provider default exactly when the input gives none.
C5_HostHonoured ==
    (Done /\ mode = "sibling" /\ Parsed) =>
        \A i \in 1..Len(deps) :
            LET n == deps[i].depName
                rawOriginal == RawGraphNodes[n].obj.original
                t == flakeLock.nodes[n].locked.type
            IN  t \in {"github", "gitlab", "sourcehut"} =>
                  deps[i].packageName =
                     S_https
                       \o (IF RawHas(rawOriginal, "host")
                           THEN rawOriginal.obj.host.str ELSE DefaultHost(t))
                       \o S_slash \o Render(flakeLock.nodes[n].original, "owner")
                       \o S_slash \o Render(flakeLock.nodes[n].original, "repo")

(***************************************************************************)
(* C6                                                                      *)
(***************************************************************************)
\* C6: for every validated lock graph a non-root node whose locked or
\* original is absent produces no record, and it does not stop processing:
\* every other node the variant emits a record for still has its record
\* (exactly one) when the run ends, wherever the empty node falls in the
\* iteration order.
C6_EmptySkippedOthersKept ==
    LoopEntered =>
        /\ \A n \in NodeNames \ {"root"} : ~HasBoth(n) => n \notin OutNames
        /\ (Done /\ \E e \in NodeNames \ {"root"} : ~HasBoth(e)) =>
              \A m \in NodeNames :
                  Emits(m) => Cardinality({i \in 1..Len(deps) : deps[i].depName = m}) = 1

\* an empty node was skipped as such before a node that has its record
C6_Witness ==
    /\ Done /\ LoopEntered
    /\ CountLog(EmptyLog) >= 1
    /\ \E e \in NodeNames \ {"root"}, m \in NodeNames :
         /\ ~HasBoth(e)
         /\ mode = "sibling" => Declared(e)
         /\ Emits(m)
         /\ 0 < VisitIndex(e)
         /\ VisitIndex(e) < VisitIndex(m)
         /\ m \in OutNames

(***************************************************************************)
(* C7                                                                      *)
(***************************************************************************)
Undeclared == {n \in NodeNames \ {"root"} : ~Declared(n)}

\* C7: in sibling-file mode a non-root node that is not among the root
\* node's inputs (any non-root node when root has no inputs) produces no
\* record and is logged once, and the extraction goes on: every node is
\* visited, every node that is emitted has its record, and the call returns
\* normally.
C7_UndeclaredSkippedOnly ==
    (mode = "sibling" /\ Parsed) =>
        /\ Undeclared \cap OutNames = {}
        /\ Done =>
             /\ result.kind \in {"null", "deps"}
             /\ VisitedNames = NodeNames
             /\ CountLog(NoRootLogA) = Cardinality(Undeclared)
             /\ \A m \in NodeNames : Emits(m) => m \in OutNames

(***************************************************************************)
(* C8                                                                      *)
(***************************************************************************)
\* C8: in inline mode a schema-valid lock graph whose version is not 7
\* yields null with no node visited and no record classified, and the
\* outcome is logged once at debug severity and not at error severity.
C8_UnsupportedVersion ==
    (Done /\ mode = "inline" /\ Parsed /\ flakeLock.version # 7) =>
        /\ result.kind = "null"
        /\ visited = << >>
        /\ deps = << >>
        /\ CountLog(UnsupportedLogB) = 1
        /\ CountLevel("debug") = 1
        /\ CountLevel("error") = 0

\* a finished inline run on a version 8 graph that holds a node which would
\* have been emitted
C8_Witness ==
    /\ Done /\ mode = "inline" /\ Parsed
    /\ flakeLock.version = 8
    /\ \E n \in NodeNames : Emits(n)
    /\ result.kind = "null"

(***************************************************************************)
(* C9                                                                      *)
(***************************************************************************)
\* qualification as the claim states it
Qualifies(n) ==
    IF n = "root" THEN FALSE
    ELSE IF mode = "sibling" /\ ~Declared(n) THEN FALSE
    ELSE IF ~HasBoth(n) THEN FALSE
    ELSE IF flakeLock.nodes[n].original.type = "indirect" THEN FALSE
    ELSE flakeLock.nodes[n].locked.type
            \in {"git", "github", "gitlab", "sourcehut", "tarball"}

\* C9: for every validated lock graph the result is null exactly when no
\* node qualifies, and otherwise an envelope whose deps holds exactly one
\* record per qualifying node, keyed by depName, and no other record.
C9_ExactlyQualifying ==
    (Done /\ LoopEntered) =>
        LET Q == {n \in NodeNames : Qualifies(n)}
        IN  /\ result.kind = "null" <=> Q = {}
            /\ Q # {} =>
                 /\ result.kind = "deps"
                 /\ Len(deps) = Cardinality(Q)
                 /\ OutNames = Q

(***************************************************************************)
(* C10                                                                     *)
(***************************************************************************)
\* the nodes that reach the provider dispatch
Dispatched ==
    {n \in NodeNames \ {"root"} :
        /\ mode = "sibling" => Declared(n)
        /\ HasBoth(n)
        /\ flakeLock.nodes[n].original.type # "indirect"}

\* C10: in both variants the provider branch is chosen by locked.type alone:
\* two nodes with equal locked.type and different non-indirect original.type
\* take the same branch, so both are emitted or both are skipped.
C10_DispatchByLockedType ==
    (Done /\ LoopEntered) =>
        \A n \in Dispatched, m \in Dispatched :
            flakeLock.nodes[n].locked.type = flakeLock.nodes[m].locked.type =>
                (n \in OutNames <=> m \in OutNames)

====
